---- MODULE Spec2Model ----
(***************************************************************************)
(* The context lifecycle engine of training-companion: ContextItem and its *)
(* effectiveness update, the delta-update curator (DeepSeekCurator.curate) *)
(* and the ACEFramework orchestrator with its grow-and-refine pruning.     *)
(*                                                                         *)
(* Scores, priorities and impacts are Python floats.  They are modelled as *)
(* IEEE-754 binary64 values with round-to-nearest-even arithmetic, so that *)
(* equalities between computed scores mean what they mean in the program.  *)
(* The values the model draws stay far inside the normal range, so         *)
(* overflow, subnormals, infinities and NaN are not modelled.              *)
(***************************************************************************)
EXTENDS Integers, Sequences, FiniteSets, TLC

VARIABLES context, execution_history, clock, last

vars == <<context, execution_history, clock, last>>

(***************************************************************************)
(* Natural numbers of arbitrary size: little-endian sequences of limbs in  *)
(* 0..Radix-1 without high zero limbs (zero is the empty sequence).  They  *)
(* carry the 53-bit significands and their 106-bit products.               *)
(***************************************************************************)
LimbBits == 15

Radix == 2 ^ LimbBits

RECURSIVE BTrim(_)
BTrim(a) ==
    IF a = <<>> THEN a
    ELSE IF a[Len(a)] = 0 THEN BTrim(SubSeq(a, 1, Len(a) - 1)) ELSE a

RECURSIVE BFromInt(_)
BFromInt(n) == IF n = 0 THEN <<>> ELSE <<n % Radix>> \o BFromInt(n \div Radix)

RECURSIVE BAddC(_, _, _)
BAddC(a, b, c) ==
    IF a = <<>> /\ b = <<>> THEN (IF c = 0 THEN <<>> ELSE <<c>>)
    ELSE LET x == IF a = <<>> THEN 0 ELSE Head(a)
             y == IF b = <<>> THEN 0 ELSE Head(b)
             s == x + y + c
         IN  <<s % Radix>> \o BAddC(IF a = <<>> THEN a ELSE Tail(a),
                                    IF b = <<>> THEN b ELSE Tail(b),
                                    s \div Radix)

BAdd(a, b) == BTrim(BAddC(a, b, 0))

\* a - b - c for a >= b + c
RECURSIVE BSubC(_, _, _)
BSubC(a, b, c) ==
    IF a = <<>> THEN <<>>
    ELSE LET y == IF b = <<>> THEN 0 ELSE Head(b)
             d == Head(a) - y - c
         IN  <<IF d < 0 THEN d + Radix ELSE d>>
               \o BSubC(Tail(a), IF b = <<>> THEN b ELSE Tail(b),
                        IF d < 0 THEN 1 ELSE 0)

BSub(a, b) == BTrim(BSubC(a, b, 0))

\* a * k + c for a limb-sized k
RECURSIVE BMulSmall(_, _, _)
BMulSmall(a, k, c) ==
    IF a = <<>> THEN (IF c = 0 THEN <<>> ELSE <<c>>)
    ELSE LET p == Head(a) * k + c
         IN  <<p % Radix>> \o BMulSmall(Tail(a), k, p \div Radix)

RECURSIVE BMulU(_, _)
BMulU(a, b) ==
    IF b = <<>> THEN <<>>
    ELSE BAddC(BMulSmall(a, Head(b), 0), <<0>> \o BMulU(a, Tail(b)), 0)

BMul(a, b) == IF a = <<>> \/ b = <<>> THEN <<>> ELSE BTrim(BMulU(a, b))

\* the limbs of a and b from position i down: -1, 0 or 1
RECURSIVE BCmpAt(_, _, _)
BCmpAt(a, b, i) ==
    IF i = 0 THEN 0
    ELSE IF a[i] < b[i] THEN -1
    ELSE IF a[i] > b[i] THEN 1
    ELSE BCmpAt(a, b, i - 1)

BCmp(a, b) ==
    IF Len(a) < Len(b) THEN -1
    ELSE IF Len(a) > Len(b) THEN 1
    ELSE BCmpAt(a, b, Len(a))

RECURSIVE BitsOfLimb(_)
BitsOfLimb(x) == IF x = 0 THEN 0 ELSE 1 + BitsOfLimb(x \div 2)

BBits(a) == IF a = <<>> THEN 0 ELSE (Len(a) - 1) * LimbBits + BitsOfLimb(a[Len(a)])

BShl(a, s) ==
    IF a = <<>> \/ s = 0 THEN a
    ELSE [i \in 1..(s \div LimbBits) |-> 0] \o BMulSmall(a, 2 ^ (s % LimbBits), 0)

\* <<quotient, remainder>> of a by a limb-sized k
RECURSIVE BDivRem(_, _)
BDivRem(a, k) ==
    IF a = <<>> THEN <<<<>>, 0>>
    ELSE LET hi  == BDivRem(Tail(a), k)
             cur == hi[2] * Radix + Head(a)
         IN  <<<<cur \div k>> \o hi[1], cur % k>>

BShr(a, s) ==
    LET q == s \div LimbBits
    IN  IF q >= Len(a) THEN <<>>
        ELSE BTrim(BDivRem(SubSeq(a, q + 1, Len(a)), 2 ^ (s % LimbBits))[1])

(***************************************************************************)
(* binary64: [neg, m, e] stands for (-1)^neg * m * 2^e with a significand  *)
(* m of exactly MantBits bits; zero is [FALSE, <<>>, 0].  Two floats are   *)
(* equal as Python floats iff their records are equal.                     *)
(***************************************************************************)
MantBits == 52 + 1

Zero == [neg |-> FALSE, m |-> <<>>, e |-> 0]

\* whether some limb of a at a position up to n is not zero
AnyLow(a, n) == \E i \in 1..n : a[i] # 0

\* (-1)^neg * M * 2^e rounded to the nearest float, ties to even: the s bits
\* that do not fit are cut off (whole limbs first, then bits) and compared
\* with a half of the last place kept
FRound(neg, M, e) ==
    IF M = <<>> THEN Zero
    ELSE LET b == BBits(M)
         IN  IF b <= MantBits
             THEN [neg |-> neg, m |-> BShl(M, MantBits - b), e |-> e - (MantBits - b)]
             ELSE LET s    == b - MantBits
                      nl   == s \div LimbBits
                      r    == s % LimbBits
                      qr   == BDivRem(SubSeq(M, nl + 1, Len(M)), 2 ^ r)
                      q    == BTrim(qr[1])
                      c    == IF r > 0
                              THEN IF qr[2] > 2 ^ (r - 1) THEN 1
                                   ELSE IF qr[2] < 2 ^ (r - 1) THEN -1
                                   ELSE IF AnyLow(M, nl) THEN 1 ELSE 0
                              ELSE IF M[nl] > Radix \div 2 THEN 1
                                   ELSE IF M[nl] < Radix \div 2 THEN -1
                                   ELSE IF AnyLow(M, nl - 1) THEN 1 ELSE 0
                      up   == c = 1 \/ (c = 0 /\ q[1] % 2 = 1)
                      q1   == IF up THEN BAdd(q, <<1>>) ELSE q
                  IN  IF BBits(q1) > MantBits
                      THEN [neg |-> neg, m |-> BShr(q1, 1), e |-> e + s + 1]
                      ELSE [neg |-> neg, m |-> q1, e |-> e + s]

FMul(a, b) == FRound(a.neg # b.neg, BMul(a.m, b.m), a.e + b.e)

FNeg(a) == IF a.m = <<>> THEN a ELSE [a EXCEPT !.neg = ~a.neg]

FAdd(a, b) ==
    IF a.m = <<>> THEN b
    ELSE IF b.m = <<>> THEN a
    ELSE LET e  == IF a.e < b.e THEN a.e ELSE b.e
             A  == BShl(a.m, a.e - e)
             B  == BShl(b.m, b.e - e)
             c  == BCmp(A, B)
         IN  IF a.neg = b.neg THEN FRound(a.neg, BAdd(A, B), e)
             ELSE IF c = 0 THEN Zero
             ELSE IF c = 1 THEN FRound(a.neg, BSub(A, B), e)
             ELSE FRound(b.neg, BSub(B, A), e)

FSub(a, b) == FAdd(a, FNeg(b))

\* a < b
FLt(a, b) ==
    LET mag == IF a.m = <<>> THEN (IF b.m = <<>> THEN 0 ELSE -1)
               ELSE IF b.m = <<>> THEN 1
               ELSE IF a.e < b.e THEN -1
               ELSE IF a.e > b.e THEN 1
               ELSE BCmp(a.m, b.m)
    IN  IF a.neg /\ ~b.neg THEN TRUE
        ELSE IF ~a.neg /\ b.neg THEN FALSE
        ELSE IF a.neg THEN mag = 1
        ELSE mag = -1

FLe(a, b) == ~FLt(b, a)

\* the float a decimal literal n/d denotes (d a power of ten below Radix)
Dec(n, d) ==
    IF n = 0 THEN Zero
    ELSE LET qr == BDivRem(BShl(BFromInt(n), 5 * LimbBits), d)
             q  == BTrim(qr[1])
             st == IF qr[2] = 0 THEN 0 ELSE 1
         IN  FRound(FALSE, BAdd(BShl(q, 1), <<st>>), 0 - (5 * LimbBits + 1))

(***************************************************************************)
(* ContextItem (ace_framework.py).  An id "prefix_a_b" is the triple       *)
(* <<prefix, a, b>>; created_at / updated_at hold the reading of the clock *)
(* that datetime.now() gave.  Every entry of a collection is an object of  *)
(* its own (no ContextItem object is appended twice).                      *)
(***************************************************************************)
DefaultScore == Dec(5, 10)

\* a reward rate equal to the penalty rate
RewardRateAsPenalty == Dec(5, 100)

RewardRate == Dec(1, 10)

PenaltyRate == Dec(5, 100)

One == Dec(1, 1)

\* the curator's penalty at the default impact 1.0
CurateImpactDefault == Dec(1, 1)

CurateImpact == Dec(5, 10)

\* the impacts the model passes to update_effectiveness
Impacts == {Zero, CurateImpact, One, Dec(20, 1)}

\* impact * 0.1 and impact * 0.05, tabulated over Impacts
RewardStep == [impact \in Impacts |-> FMul(impact, RewardRate)]

PenaltyStep == [impact \in Impacts |-> FMul(impact, PenaltyRate)]

ContextItem(id, content, category, priority, now) ==
    [id |-> id, content |-> content, category |-> category,
     priority |-> priority, created_at |-> now, updated_at |-> now,
     usage_count |-> 0, effectiveness_score |-> DefaultScore,
     metadata |-> <<>>]

\* Python's min(a, b) and max(a, b): the first argument unless the second is
\* strictly smaller (greater)
PyMin(a, b) == IF FLt(b, a) THEN b ELSE a

PyMax(a, b) == IF FLt(a, b) THEN b ELSE a

\* the update without its clamping to [0.0, 1.0]
update_effectiveness_unclamped(item, success, impact, now) ==
    [item EXCEPT
        !.effectiveness_score =
            IF success
            THEN FAdd(item.effectiveness_score, RewardStep[impact])
            ELSE FSub(item.effectiveness_score, PenaltyStep[impact]),
        !.updated_at = now]

\* the update with the two branches taken the wrong way round
update_effectiveness_swapped(item, success, impact, now) ==
    [item EXCEPT
        !.effectiveness_score =
            IF ~success
            THEN PyMin(One, FAdd(item.effectiveness_score, RewardStep[impact]))
            ELSE PyMax(Zero, FSub(item.effectiveness_score, PenaltyStep[impact])),
        !.updated_at = now]

\* the update refreshing updated_at only when it has changed the score
update_effectiveness_stamp_on_change(item, success, impact, now) ==
    [item EXCEPT
        !.effectiveness_score =
            IF success
            THEN PyMin(One, FAdd(item.effectiveness_score, RewardStep[impact]))
            ELSE PyMax(Zero, FSub(item.effectiveness_score, PenaltyStep[impact])),
        !.updated_at =
            IF (IF success
                THEN PyMin(One, FAdd(item.effectiveness_score, RewardStep[impact]))
                ELSE PyMax(Zero, FSub(item.effectiveness_score, PenaltyStep[impact])))
               = item.effectiveness_score
            THEN item.updated_at
            ELSE now]

update_effectiveness(item, success, impact, now) ==
    [item EXCEPT
        !.effectiveness_score =
            IF success
            THEN PyMin(One, FAdd(item.effectiveness_score, RewardStep[impact]))
            ELSE PyMax(Zero, FSub(item.effectiveness_score, PenaltyStep[impact])),
        !.updated_at = now]

(***************************************************************************)
(* ReflectionResult and DeepSeekCurator.curate (deepseek_integration.py).  *)
(***************************************************************************)
ReflectionResult(insights, patterns, failures, recommendations, context_gaps) ==
    [insights |-> insights, patterns |-> patterns, failures |-> failures,
     recommendations |-> recommendations, context_gaps |-> context_gaps]

InsightPriority == Dec(8, 10)

StrategyPriority == Dec(7, 10)

\* a curator that rewrites: the new items instead of the list grown by them
ReplaceByInsights(current_context, new_insights, now) ==
    [j \in 1..Len(new_insights) |->
        ContextItem(<<"insight", Len(current_context) + (j - 1), j - 1>>,
                    new_insights[j], "insight", InsightPriority, now)]

\* the first loop: one item per insight, each appended to the list as it is,
\* so the i-th (from 0) is built when the list has Len(current_context) + i items
AppendInsights(current_context, new_insights, now) ==
    current_context \o
        [j \in 1..Len(new_insights) |->
            ContextItem(<<"insight", Len(current_context) + (j - 1), j - 1>>,
                        new_insights[j], "insight", InsightPriority, now)]

\* the second loop: one item per recommendation
AppendStrategies(current_context, recommendations, now) ==
    current_context \o
        [j \in 1..Len(recommendations) |->
            ContextItem(<<"strategy", Len(current_context) + (j - 1), j - 1>>,
                        recommendations[j], "strategy", StrategyPriority, now)]

\* the penalty applied whether or not the reflection reports failures
PenalizeAlways(current_context, failures, now) ==
    [j \in 1..Len(current_context) |->
        update_effectiveness(current_context[j], FALSE, CurateImpact, now)]

\* the penalty applied once for each failure the reflection reports
RECURSIVE PenalizePerFailure(_, _, _)
PenalizePerFailure(current_context, failures, now) ==
    IF failures = <<>> THEN current_context
    ELSE PenalizePerFailure(
            [j \in 1..Len(current_context) |->
                update_effectiveness(current_context[j], FALSE, CurateImpact, now)],
            Tail(failures), now)

\* a curator that also rewards every item when no failure is reported
RewardWithoutFailures(current_context, failures, now) ==
    [j \in 1..Len(current_context) |->
        update_effectiveness(current_context[j], failures = <<>>, CurateImpact, now)]

\* the third step: a non-empty failures list penalises every item of the list
PenalizeAll(current_context, failures, now) ==
    IF failures # <<>>
    THEN [j \in 1..Len(current_context) |->
            update_effectiveness(current_context[j], FALSE, CurateImpact, now)]
    ELSE current_context

curate(current_context, new_insights, reflections, now) ==
    PenalizeAll(
        AppendStrategies(AppendInsights(current_context, new_insights, now),
                         reflections.recommendations, now),
        reflections.failures, now)

(***************************************************************************)
(* ACEFramework.refine_context: sorted(..., reverse=True) is a stable sort *)
(* in descending key order; each key is computed once.                     *)
(***************************************************************************)
SortKey(x) == FMul(x.effectiveness_score, x.priority)

\* the keys of the items, each computed once
Keys(ctx) == [j \in 1..Len(ctx) |-> SortKey(ctx[j])] \o <<>>

\* an order that puts the later of two items with the same key first
BeforeTiesReversed(keys, i, j) ==
    IF i < j THEN FLt(keys[j], keys[i]) ELSE ~FLt(keys[i], keys[j])

\* whether the item at i stands before the item at j (i # j) in the sorted
\* list: the sort is stable and descending, so the larger key goes first
\* and, of two equal keys, the one that came first
Before(keys, i, j) ==
    IF i < j THEN ~FLt(keys[i], keys[j]) ELSE FLt(keys[j], keys[i])

\* the position in the sorted list of the item at j
Rank(keys, j) ==
    1 + Cardinality({i \in 1..Len(keys) : i # j /\ Before(keys, i, j)})

Ranks(keys) == [j \in 1..Len(keys) |-> Rank(keys, j)] \o <<>>

\* the items put at their positions
Arrange(ctx, ranks) ==
    [p \in 1..Len(ctx) |-> ctx[CHOOSE j \in 1..Len(ctx) : ranks[j] = p]] \o <<>>

sorted_desc(ctx) ==
    CHOOSE s \in {Arrange(ctx, ranks) :
                     ranks \in {Ranks(keys) : keys \in {Keys(ctx)}}} : TRUE

MinKeep == 10

\* half of n rounded up instead of down
keep_count_ceil(n) == IF MinKeep > (n + 1) \div 2 THEN MinKeep ELSE (n + 1) \div 2

\* half of n without the floor of MinKeep items
keep_count_half(n) == n \div 2

keep_count(n) == IF MinKeep > n \div 2 THEN MinKeep ELSE n \div 2

\* sorted_context[:keep_count]
Slice(s, k) == SubSeq(s, 1, IF k < Len(s) THEN k ELSE Len(s))

\* the cut taken from the collection as it is instead of the sorted one
refine_unsorted(ctx) == Slice(ctx, keep_count(Len(ctx)))

\* the sorted collection without the cut
refine_uncut(ctx) == sorted_desc(ctx)

refine(ctx) == Slice(sorted_desc(ctx), keep_count(Len(ctx)))

RefineAbove == 20

(***************************************************************************)
(* The inputs.  An engine is constructed empty and seeded through          *)
(* add_context_item, as SoccerPredictionAgent.__init__ does with its four  *)
(* baseline items; Init is an engine seeded with the first n items of a    *)
(* seed list (the four baseline items, then items of varied score and      *)
(* priority, several of them with the same score * priority), taken from   *)
(* one of a few starting points of that list.                              *)
(***************************************************************************)
MaxSeed == 22

NumSeedOrders == 2

MaxClock == 2

MaxUpdateIdx == 1

MaxAddKinds == 1

MaxInsights == 1

MaxRecs == 1

MaxFailures == 2

BaselinePriority == <<Dec(9, 10), Dec(9, 10), Dec(8, 10), Dec(85, 100)>>

BaselineScore == <<Dec(85, 100), Dec(82, 100), Dec(78, 100), Dec(80, 100)>>

BaselineCategory == <<"pattern", "pattern", "strategy", "pattern">>

SeedScores == <<Dec(5, 10), Zero, One, Dec(8, 10), Dec(4, 10)>>

SeedPriorities == <<One, Dec(8, 10), Dec(5, 10)>>

SeedCategories == <<"strategy", "insight", "pattern", "failure">>

SeedItem(k, now) ==
    IF k <= 4
    THEN [ContextItem(<<"baseline", k, 0>>, <<"baseline fact", k>>,
                      BaselineCategory[k], BaselinePriority[k], now)
            EXCEPT !.effectiveness_score = BaselineScore[k]]
    ELSE [ContextItem(<<"seed", k, 0>>, <<"seed fact", k>>,
                      SeedCategories[(k % 4) + 1], SeedPriorities[(k % 3) + 1], now)
            EXCEPT !.effectiveness_score = SeedScores[(k % 5) + 1]]

Seed(n, order) ==
    [j \in 1..n |-> SeedItem(((j - 1 + 5 * order) % MaxSeed) + 1, 0)]

Texts(what, n) == [j \in 1..n |-> <<what, j>>]

Reflections ==
    {ReflectionResult(Texts("insight text", ni), <<>>,
                      [j \in 1..nf |-> [failure |-> j]],
                      Texts("recommendation", nr), <<>>) :
        ni \in {0, MaxInsights}, nr \in {0, MaxRecs}, nf \in {0, 1, MaxFailures}}

(***************************************************************************)
(* The engine.  last records the operation that led to the state: its      *)
(* name, the collection before it, its argument and, for curate_context,   *)
(* the curator's result before the refinement check.                       *)
(***************************************************************************)
Init ==
    /\ \E n \in 0..MaxSeed, order \in 0..(NumSeedOrders - 1) :
          context = Seed(n, order)
    /\ execution_history = <<>>
    /\ clock = 1
    /\ last = [op |-> "init", pre |-> <<>>, arg |-> <<>>, out |-> <<>>]

\* add_context_item skipping an item whose id the collection already holds
AddContextItemUnlessPresent(k) ==
    /\ context' = (IF \E j \in 1..Len(context) : context[j].id = SeedItem(k, clock).id
                   THEN context
                   ELSE Append(context, SeedItem(k, clock)))
    /\ clock' = clock + 1
    /\ last' = [op |-> "add_context_item", pre |-> context,
                arg |-> SeedItem(k, clock), out |-> context']
    /\ UNCHANGED execution_history

\* ACEFramework.add_context_item
AddContextItem(k) ==
    /\ context' = Append(context, SeedItem(k, clock))
    /\ clock' = clock + 1
    /\ last' = [op |-> "add_context_item", pre |-> context,
                arg |-> SeedItem(k, clock), out |-> context']
    /\ UNCHANGED execution_history

UpdateEffectiveness(i, success, impact) ==
    /\ i <= Len(context)
    /\ context' = [context EXCEPT
                      ![i] = update_effectiveness(context[i], success, impact, clock)]
    /\ clock' = clock + 1
    /\ last' = [op |-> "update_effectiveness", pre |-> context,
                arg |-> [i |-> i, success |-> success, impact |-> impact],
                out |-> context']
    /\ UNCHANGED execution_history

\* curate_context refining from RefineAbove items on
CurateContextFrom20(reflections) ==
    /\ \E c \in {curate(context, reflections.insights, reflections, clock)} :
           /\ context' = (IF Len(c) >= RefineAbove THEN refine(c) ELSE c)
           /\ last' = [op |-> "curate_context", pre |-> context,
                       arg |-> reflections, out |-> c, ret |-> context']
    /\ clock' = clock + 1
    /\ UNCHANGED execution_history

\* curate_context pruning the grown collection before the penalty
CurateContextPruneFirst(reflections) ==
    /\ LET a == AppendStrategies(
                    AppendInsights(context, reflections.insights, clock),
                    reflections.recommendations, clock)
       IN  /\ context' = PenalizeAll(
                             IF Len(a) > RefineAbove THEN refine(a) ELSE a,
                             reflections.failures, clock)
           /\ last' = [op |-> "curate_context", pre |-> context,
                       arg |-> reflections,
                       out |-> PenalizeAll(a, reflections.failures, clock),
                       ret |-> context']
    /\ clock' = clock + 1
    /\ UNCHANGED execution_history

\* out is the curator's result, ret the value curate_context returns
CurateContext(reflections) ==
    /\ \E c \in {curate(context, reflections.insights, reflections, clock)} :
           /\ context' = (IF Len(c) > RefineAbove THEN refine(c) ELSE c)
           /\ last' = [op |-> "curate_context", pre |-> context,
                       arg |-> reflections, out |-> c, ret |-> context']
    /\ clock' = clock + 1
    /\ UNCHANGED execution_history

RefineContext ==
    /\ context' = refine(context)
    /\ clock' = clock + 1
    /\ last' = [op |-> "refine_context", pre |-> context, arg |-> <<>>,
                out |-> context']
    /\ UNCHANGED execution_history

Next ==
    \/ \E k \in 1..MaxAddKinds : clock < MaxClock /\ AddContextItem(k)
    \/ \E i \in 1..MaxUpdateIdx, success \in BOOLEAN, impact \in Impacts :
          clock < MaxClock /\ UpdateEffectiveness(i, success, impact)
    \/ \E reflections \in Reflections :
          clock < MaxClock /\ CurateContext(reflections)
    \/ clock < MaxClock /\ RefineContext

Spec == Init /\ [][Next]_vars

(***************************************************************************)
(* One ContextItem on its own, as in test_context_item_effectiveness_update *)
(* (default priority 1.0), with a score in StartScores and a sequence of   *)
(* update_effectiveness calls on it.                                       *)
(***************************************************************************)
MaxItemClock == 4

StartScores == {DefaultScore, Zero, One, Dec(85, 100)}

InitItem ==
    /\ \E s \in StartScores :
          context = <<[ContextItem(<<"test", 2, 0>>, <<"Test pattern", 0>>,
                                   "pattern", One, 0)
                          EXCEPT !.effectiveness_score = s]>>
    /\ execution_history = <<>>
    /\ clock = 1
    /\ last = [op |-> "init", pre |-> <<>>, arg |-> <<>>, out |-> <<>>]

NextItem ==
    \E success \in BOOLEAN, impact \in Impacts :
        clock < MaxItemClock /\ UpdateEffectiveness(1, success, impact)

SpecItem == InitItem /\ [][NextItem]_vars

(***************************************************************************)
(* An engine that is seeded and then only learns: a sequence of            *)
(* curate_context calls, with reflections of up to MaxBurst insights, on   *)
(* the four baseline items or on a larger seeded collection.               *)
(***************************************************************************)
MaxCurateClock == 4

MaxBurst == 5

CurateSeedSizes == {4, 16}

CurateReflections ==
    {ReflectionResult(Texts("insight text", ni), <<>>,
                      [j \in 1..nf |-> [failure |-> j]],
                      Texts("recommendation", nr), <<>>) :
        ni \in {0, 1, MaxBurst}, nr \in {0, MaxRecs}, nf \in {0, 1}}

InitCurate ==
    /\ \E n \in CurateSeedSizes, order \in 0..(NumSeedOrders - 1) :
          context = Seed(n, order)
    /\ execution_history = <<>>
    /\ clock = 1
    /\ last = [op |-> "init", pre |-> <<>>, arg |-> <<>>, out |-> <<>>]

NextCurate ==
    \E reflections \in CurateReflections :
        clock < MaxCurateClock /\ CurateContext(reflections)

SpecCurate == InitCurate /\ [][NextCurate]_vars

(***************************************************************************)
(* The external capability.  DeepSeekClient.call returns a string: the     *)
(* model's answer, or an error text.  A response is modelled by what the   *)
(* parsers make of it: "text" holds no JSON object or array that           *)
(* json.loads accepts (plain text, an "API Error: ..." string), "object"   *)
(* holds a JSON object, "array" a JSON array, "bad_array" brackets around  *)
(* text that is not JSON.  A JSON value is tagged with its type: a list or *)
(* a string with its elements, a number, null; "missing" marks a key the   *)
(* object does not have.                                                   *)
(***************************************************************************)
List(v) == [t |-> "list", v |-> v]

\* a Python string: its characters where the code iterates it, its text
\* where the code passes it on
Str(v) == [t |-> "str", v |-> v]

Num(n) == [t |-> "num", v |-> n]

Null == [t |-> "null"]

Missing == [t |-> "missing"]

\* whether Python iterates the value (for, enumerate, join)
Iterable(x) == x.t \in {"list", "str"}

\* the elements an iteration yields: a string yields its characters
Elems(x) == IF Iterable(x) THEN x.v ELSE <<>>

\* the truth value of `if x:`
Truthy(x) ==
    CASE x.t \in {"list", "str"} -> x.v # <<>>
      [] x.t = "num" -> x.v # 0
      [] OTHER -> FALSE

ReflectionFields ==
    {"insights", "patterns", "failures", "recommendations", "context_gaps"}

\* data.get(key, [])
Get(data, key) == IF data[key].t = "missing" THEN List(<<>>) ELSE data[key]

\* the except branch of _parse_reflection_response
DegradedReflection ==
    ReflectionResult(List(<<"Unable to parse insights">>), List(<<>>), List(<<>>),
                     List(<<"Continue monitoring performance">>), List(<<>>))

\* a reflector that reports the parse failure as a failure of the run
DegradedWithFailure(response) ==
    IF response.kind = "object"
    THEN ReflectionResult(Get(response.data, "insights"),
                          Get(response.data, "patterns"),
                          Get(response.data, "failures"),
                          Get(response.data, "recommendations"),
                          Get(response.data, "context_gaps"))
    ELSE ReflectionResult(List(<<"Unable to parse insights">>), List(<<>>),
                          List(<<"Unable to parse response">>),
                          List(<<"Continue monitoring performance">>), List(<<>>))

\* DeepSeekReflector._parse_reflection_response
parse_reflection_response(response) ==
    IF response.kind = "object"
    THEN ReflectionResult(Get(response.data, "insights"),
                          Get(response.data, "patterns"),
                          Get(response.data, "failures"),
                          Get(response.data, "recommendations"),
                          Get(response.data, "context_gaps"))
    ELSE DegradedReflection

\* DeepSeekReflector.reflect: _prepare_execution_summary joins the trace's
\* features and raises TypeError on a value it cannot iterate; the answer
\* of the capability is parsed otherwise
reflect(execution_trace, response) ==
    IF Iterable(execution_trace.features)
    THEN [raised |-> FALSE, reflections |-> parse_reflection_response(response)]
    ELSE [raised |-> TRUE]

\* a JSON object of a parsed array, with the text str() gives for it
Dict(repr) == [t |-> "dict", repr |-> repr]

\* str(item) on a value json.loads produced: a string is returned as it
\* is, everything else as its printed form
py_str(item) ==
    CASE item.t = "str" -> item
      [] item.t = "num" -> Str(ToString(item.v))
      [] item.t = "null" -> Str("None")
      [] OTHER -> Str(item.repr)

\* _parse_json_response keeping the parsed values as json.loads gave them
parse_json_response_unconverted(response) ==
    CASE response.kind = "array" -> [raised |-> FALSE, value |-> response.items]
      [] response.kind = "bad_array" -> [raised |-> TRUE]
      [] OTHER -> [raised |-> FALSE, value |-> <<>>]

\* DeepSeekGenerator._parse_json_response: the text from the first "[" to
\* the last "]" goes to json.loads, which raises or gives a list whose
\* items are converted with str(); a response without such a text gives []
parse_json_response(response) ==
    CASE response.kind = "array" ->
            [raised |-> FALSE,
             value |-> [j \in 1..Len(response.items) |-> py_str(response.items[j])]]
      [] response.kind = "bad_array" -> [raised |-> TRUE]
      [] OTHER -> [raised |-> FALSE, value |-> <<>>]

\* DeepSeekGenerator.generate: what _parse_json_response returned, or the
\* response itself in a list when it raised
generate(task, ctx, response) ==
    IF parse_json_response(response).raised
    THEN <<Str(response.text)>>
    ELSE parse_json_response(response).value

\* the list curate's `if reflections.failures:` stands for: empty iff the
\* value is false
FailuresSeen(x) ==
    IF Truthy(x) THEN (IF Iterable(x) THEN x.v ELSE <<x>>) ELSE <<>>

\* ACEFramework.curate_context on a reflection as the reflector parsed it.
\* The comprehension over reflections.insights raises TypeError before the
\* curator runs; the curator appends to self.context itself, so that what
\* it appended before it raises over reflections.recommendations stays.
curate_context(ctx, reflections, now) ==
    IF ~Iterable(reflections.insights)
    THEN [raised |-> TRUE, context |-> ctx]
    ELSE IF ~Iterable(reflections.recommendations)
    THEN [raised |-> TRUE,
          context |-> AppendInsights(ctx, Elems(reflections.insights), now)]
    ELSE [raised |-> FALSE,
          context |->
              (LET c == curate(ctx, Elems(reflections.insights),
                               ReflectionResult(
                                   Elems(reflections.insights), <<>>,
                                   FailuresSeen(reflections.failures),
                                   Elems(reflections.recommendations), <<>>),
                               now)
                IN  IF Len(c) > RefineAbove THEN refine(c) ELSE c)]

\* get_context_by_category without the filter
get_context_by_category_all(ctx, category) == ctx

\* get_context_by_category giving the matching items last to first
get_context_by_category_reversed(ctx, category) ==
    LET found == SelectSeq(ctx, LAMBDA item : item.category = category)
    IN  [j \in 1..Len(found) |-> found[Len(found) + 1 - j]]

get_context_by_category(ctx, category) ==
    SelectSeq(ctx, LAMBDA item : item.category = category)

\* ContextItem.to_dict: the dictionary of the item's fields
to_dict(item) == [f \in DOMAIN item |-> item[f]]

get_context_state(ctx, history) ==
    [total_items |-> Len(ctx),
     by_category |->
        [cat \in {ctx[j].category : j \in 1..Len(ctx)} |->
            Len(get_context_by_category(ctx, cat))],
     items |-> [j \in 1..Len(ctx) |-> to_dict(ctx[j])],
     execution_history_count |-> Len(history)]

(***************************************************************************)
(* The agent: SoccerPredictionAgent on its four baseline items, with       *)
(* predict_match (generate_strategies), record_outcome (reflect_on_execution *)
(* followed by curate_context on its result), get_learning_state           *)
(* (get_context_state), and reflect_on_execution and                       *)
(* get_context_by_category of its engine on their own.                     *)
(***************************************************************************)
MaxAgentClock == 4

Obj(insights, patterns, failures, recommendations, context_gaps) ==
    [kind |-> "object",
     data |-> [insights |-> insights, patterns |-> patterns,
               failures |-> failures, recommendations |-> recommendations,
               context_gaps |-> context_gaps]]

ReflectResponses ==
    {[kind |-> "text", text |-> "API Error: timeout"],
     [kind |-> "text", text |-> "no JSON in this answer"],
     Obj(List(<<"insight a">>), List(<<>>), List(<<"failure a">>),
         List(<<"recommendation a">>), List(<<>>)),
     Obj(Missing, Missing, Missing, Missing, Missing),
     Obj(List(<<"insight a">>), Missing, Missing, Missing, Missing),
     Obj(Missing, Missing, List(<<"failure a">>), Missing, Missing),
     Obj(Null, Missing, Missing, Missing, Missing),
     Obj(List(<<"insight a">>), Missing, Missing, Null, Missing),
     Obj(Missing, Null, Str(<<"n", "o">>), Missing, Missing),
     Obj(Str(<<"o", "k">>), Missing, Num(0), Missing, Num(1))}

GenResponses ==
    {[kind |-> "array", text |-> "[\"a\", {\"n\": 1}]",
      items |-> <<Str("a"), Dict("{'n': 1}")>>],
     [kind |-> "array", text |-> "Here: [null, 1]", items |-> <<Null, Num(1)>>],
     [kind |-> "bad_array", text |-> "[not JSON]"],
     [kind |-> "text", text |-> "no array in this answer"],
     [kind |-> "text", text |-> "API Error: timeout"]}

Traces ==
    {[match |-> "a vs b", correct |-> TRUE, features |-> List(<<"form">>)],
     [match |-> "c vs d", correct |-> FALSE, features |-> Null]}

InitAgent ==
    /\ context = Seed(4, 0)
    /\ execution_history = <<>>
    /\ clock = 1
    /\ last = [op |-> "init", pre |-> <<>>, arg |-> <<>>, out |-> <<>>]

\* reflect_on_execution recording the trace once the reflector has returned
ReflectOnExecutionAppendAfter(execution_trace, response) ==
    /\ execution_history' =
          (IF reflect(execution_trace, response).raised
           THEN execution_history
           ELSE Append(execution_history, execution_trace))
    /\ clock' = clock + 1
    /\ last' = [op |-> "reflect_on_execution", pre |-> context,
                arg |-> [execution_trace |-> execution_trace, response |-> response],
                out |-> reflect(execution_trace, response)]
    /\ UNCHANGED context

\* ACEFramework.reflect_on_execution: out is what the call returns, or that
\* it raised
ReflectOnExecution(execution_trace, response) ==
    /\ execution_history' = Append(execution_history, execution_trace)
    /\ clock' = clock + 1
    /\ last' = [op |-> "reflect_on_execution", pre |-> context,
                arg |-> [execution_trace |-> execution_trace, response |-> response],
                out |-> reflect(execution_trace, response)]
    /\ UNCHANGED context

\* SoccerPredictionAgent.record_outcome: reflect_on_execution, then
\* curate_context on the reflection it returned
RecordOutcome(execution_trace, response) ==
    /\ execution_history' = Append(execution_history, execution_trace)
    /\ \E r \in {reflect(execution_trace, response)} :
          \E c \in {IF r.raised THEN [raised |-> TRUE, context |-> context]
                    ELSE curate_context(context, r.reflections, clock)} :
              /\ context' = c.context
              /\ last' = [op |-> "record_outcome", pre |-> context,
                          arg |-> [execution_trace |-> execution_trace,
                                   response |-> response],
                          out |-> [raised |-> c.raised, reflected |-> r]]
    /\ clock' = clock + 1

\* generate_strategies marking the items it hands to the generator as used
GenerateStrategiesCountingUse(task, response) ==
    /\ context' = [j \in 1..Len(context) |->
                      [context[j] EXCEPT !.usage_count = @ + 1]]
    /\ clock' = clock + 1
    /\ last' = [op |-> "generate_strategies", pre |-> context,
                arg |-> [task |-> task, response |-> response],
                out |-> generate(task, context, response)]
    /\ UNCHANGED execution_history

\* ACEFramework.generate_strategies: out is the value returned
GenerateStrategies(task, response) ==
    /\ clock' = clock + 1
    /\ last' = [op |-> "generate_strategies", pre |-> context,
                arg |-> [task |-> task, response |-> response],
                out |-> generate(task, context, response)]
    /\ UNCHANGED <<context, execution_history>>

\* ACEFramework.get_context_state: out is the dictionary returned
GetContextState ==
    /\ clock' = clock + 1
    /\ last' = [op |-> "get_context_state", pre |-> context, arg |-> <<>>,
                out |-> get_context_state(context, execution_history)]
    /\ UNCHANGED <<context, execution_history>>

Tasks == {"Predict outcome for: a vs b"}

Categories == {"pattern", "insight"}

\* ACEFramework.get_context_by_category: out is the list returned
GetContextByCategory(category) ==
    /\ clock' = clock + 1
    /\ last' = [op |-> "get_context_by_category", pre |-> context,
                arg |-> category,
                out |-> get_context_by_category(context, category)]
    /\ UNCHANGED <<context, execution_history>>

NextAgent ==
    \/ \E execution_trace \in Traces, response \in ReflectResponses :
          clock < MaxAgentClock /\ ReflectOnExecution(execution_trace, response)
    \/ \E execution_trace \in Traces, response \in ReflectResponses :
          clock < MaxAgentClock /\ RecordOutcome(execution_trace, response)
    \/ \E task \in Tasks, response \in GenResponses :
          clock < MaxAgentClock /\ GenerateStrategies(task, response)
    \/ clock < MaxAgentClock /\ GetContextState
    \/ \E category \in Categories :
          clock < MaxAgentClock /\ GetContextByCategory(category)

SpecAgent == InitAgent /\ [][NextAgent]_vars

(***************************************************************************)
(* The engine from its construction: ACEFramework.__init__ followed by the *)
(* operations of the engine itself (no direct update_effectiveness), with  *)
(* reflections large enough to cross the refinement threshold at once.     *)
(***************************************************************************)
MaxEngineClock == 3

MaxEngineBurst == 42

EngineReflections ==
    {ReflectionResult(Texts("insight text", ni), <<>>,
                      [j \in 1..nf |-> [failure |-> j]],
                      Texts("recommendation", nr), <<>>) :
        ni \in {0, 1, MaxEngineBurst}, nr \in {0, MaxRecs}, nf \in {0, 1}}

EngineGenResponses ==
    {r \in GenResponses : r.text \in {"[not JSON]", "Here: [null, 1]"}}

EngineReflectResponses ==
    {r \in ReflectResponses : r.kind = "text"}

\* ACEFramework.__init__
InitEngine ==
    /\ context = <<>>
    /\ execution_history = <<>>
    /\ clock = 1
    /\ last = [op |-> "init", pre |-> <<>>, arg |-> <<>>, out |-> <<>>]

NextEngine ==
    \/ \E k \in 1..MaxAddKinds : clock < MaxEngineClock /\ AddContextItem(k)
    \/ \E task \in Tasks, response \in EngineGenResponses :
          clock < MaxEngineClock /\ GenerateStrategies(task, response)
    \/ \E execution_trace \in Traces, response \in EngineReflectResponses :
          clock < MaxEngineClock /\ ReflectOnExecution(execution_trace, response)
    \/ \E reflections \in EngineReflections :
          clock < MaxEngineClock /\ CurateContext(reflections)
    \/ clock < MaxEngineClock /\ RefineContext
    \/ clock < MaxEngineClock /\ GetContextState

SpecEngine == InitEngine /\ [][NextEngine]_vars

(***************************************************************************)
(* Properties.                                                             *)
(***************************************************************************)
InUnit(x) == FLe(Zero, x) /\ FLe(x, One)

IsUpdate == last.op = "update_effectiveness"

OldScore == last.pre[last.arg.i].effectiveness_score

NewScore == context[last.arg.i].effectiveness_score

\* C1: every item's effectiveness_score is in [0.0, 1.0] in every reachable
\* state, whatever update_effectiveness, add_context_item, curate_context
\* and refine_context calls led to it.
C1_ScoreInUnit ==
    \A j \in 1..Len(context) : InUnit(context[j].effectiveness_score)

\* a failure update whose unclamped result is below 0.0 has acted
C1_Witness ==
    /\ IsUpdate
    /\ ~last.arg.success
    /\ FLt(OldScore, PenaltyStep[last.arg.impact])
    /\ NewScore = Zero

\* C2: a success update yields a score <= 1.0 and >= the prior score; a
\* failure update yields a score >= 0.0 and <= the prior score.
C2_UpdateMonotone ==
    IsUpdate =>
        IF last.arg.success
        THEN FLe(NewScore, One) /\ FLe(OldScore, NewScore)
        ELSE FLe(Zero, NewScore) /\ FLe(NewScore, OldScore)

\* a success update has raised a score strictly, up to exactly 1.0
C2_Witness ==
    /\ IsUpdate
    /\ last.arg.success
    /\ FLt(OldScore, NewScore)
    /\ NewScore = One

\* the float next below x (x positive, its significand not a power of two)
PrevFloat(x) == [x EXCEPT !.m = BSub(x.m, <<1>>)]

\* C3 as stated: from 0.5 a success update with impact 1.0 yields exactly
\* 0.6, and a failure update with impact 1.0 then yields exactly 0.55.
C3_ExactlyPoint55 ==
    /\ (IsUpdate /\ last.arg.impact = One /\ last.arg.success
           /\ OldScore = Dec(5, 10)) => NewScore = Dec(6, 10)
    /\ (IsUpdate /\ last.arg.impact = One /\ ~last.arg.success
           /\ OldScore = Dec(6, 10)) => NewScore = Dec(55, 100)

\* C3 (amended): from 0.5 a success update with impact 1.0 yields exactly
\* 0.6; a failure update with impact 1.0 then yields the float next below
\* 0.55 (0.5499999999999999); and for every impact the reward step
\* impact * 0.1 is exactly twice the penalty step impact * 0.05.
C3_RewardTwicePenalty ==
    /\ (IsUpdate /\ last.arg.impact = One /\ last.arg.success
           /\ OldScore = Dec(5, 10)) => NewScore = Dec(6, 10)
    /\ (IsUpdate /\ last.arg.impact = One /\ ~last.arg.success
           /\ OldScore = Dec(6, 10)) => NewScore = PrevFloat(Dec(55, 100))
    /\ \A impact \in Impacts :
          RewardStep[impact] = FMul(Dec(2, 1), PenaltyStep[impact])

\* the failure update with impact 1.0 has acted on the score 0.6 that the
\* success update left
C3_Witness ==
    /\ IsUpdate
    /\ last.arg.impact = One
    /\ ~last.arg.success
    /\ OldScore = Dec(6, 10)
    /\ context[1].created_at = 0
    /\ clock = 3

(***************************************************************************)
(* refine_context, called directly or by curate_context on a curated       *)
(* collection of more than RefineAbove items.  The entries of a collection *)
(* are pairwise different records in every reachable state, so an entry    *)
(* of the input is retained iff it occurs in the result.                   *)
(***************************************************************************)
IsRefine == last.op = "refine_context"

Refined == IsRefine \/ (last.op = "curate_context" /\ Len(last.out) > 20)

RefineInput == IF IsRefine THEN last.pre ELSE last.out

Retained == {context[j] : j \in 1..Len(context)}

Discarded == {RefineInput[j] : j \in 1..Len(RefineInput)} \ Retained

InputKeys == [j \in 1..Len(RefineInput) |-> SortKey(RefineInput[j])]

Kept(j) == RefineInput[j] \in Retained

\* for each entry of the input its position in the result, 0 if discarded
ResultPos ==
    [j \in 1..Len(RefineInput) |->
        IF \E q \in 1..Len(context) : context[q] = RefineInput[j]
        THEN CHOOSE q \in 1..Len(context) : context[q] = RefineInput[j]
        ELSE 0]

\* C4: refine_context on n items leaves exactly min(n, max(10, n div 2))
\* items; 21 items are reduced to 10.
C4_RefineSize ==
    Refined =>
        LET n    == Len(RefineInput)
            keep == IF n \div 2 > 10 THEN n \div 2 ELSE 10
        IN  Len(context) = (IF n < keep THEN n ELSE keep)

\* refine_context has reduced 21 items to 10
C4_Witness == IsRefine /\ Len(last.pre) = 21 /\ Len(context) = 10

\* C5: after refine_context every retained item's score * priority is at
\* least every discarded item's.
C5_RetainedOutrankDiscarded ==
    Refined =>
        LET RK == {SortKey(x) : x \in Retained}
            DK == {SortKey(x) : x \in Discarded}
        IN  \A a \in RK, b \in DK : FLe(b, a)

\* refine_context has discarded an item that stood in front of a retained
\* item with a greater score * priority
C5_Witness ==
    /\ IsRefine
    /\ \E i, j \in 1..Len(last.pre) :
          /\ i < j
          /\ ~Kept(i)
          /\ Kept(j)
          /\ FLt(SortKey(last.pre[i]), SortKey(last.pre[j]))

\* C6: among items with equal score * priority an earlier item of the input
\* is retained in preference to a later one, and retained items with equal
\* score * priority keep their relative order.
C6_TiesKeepOrder ==
    Refined =>
        \A keys \in {InputKeys}, pos \in {ResultPos} :
            \A j \in 1..Len(RefineInput) :
                pos[j] > 0 =>
                    \A i \in 1..(j - 1) :
                        keys[i] = keys[j] => (pos[i] > 0 /\ pos[i] < pos[j])

\* refine_context has cut through a group of items with equal score *
\* priority and has kept two items of one such group
C6_Witness ==
    /\ IsRefine
    /\ LET keys == InputKeys
       IN  /\ \E i, j \in 1..Len(last.pre) :
                 i < j /\ Kept(i) /\ ~Kept(j) /\ keys[i] = keys[j]
           /\ \E i, j \in 1..Len(last.pre) :
                 i < j /\ Kept(i) /\ Kept(j) /\ keys[i] = keys[j]

\* whether s is in descending order of score * priority
Descending(s) ==
    \A j \in 1..(Len(s) - 1) : FLe(SortKey(s[j + 1]), SortKey(s[j]))

\* C7 as stated: refine_context on at most 10 items leaves the collection
\* as it was.
C7_SmallRefineNoOp ==
    (IsRefine /\ Len(last.pre) <= 10) => context = last.pre

\* C7 (amended): refine_context on at most 10 items retains all of them, in
\* descending order of score * priority; the collection is left as it was
\* iff it already was in that order.
C7_SmallRefineKeepsAll ==
    (IsRefine /\ Len(last.pre) <= 10) =>
        /\ Len(context) = Len(last.pre)
        /\ Discarded = {}
        /\ Descending(context)
        /\ (context = last.pre) <=> Descending(last.pre)

\* refine_context has acted on 8 items and has kept all 8 in another order
C7_Witness ==
    /\ IsRefine
    /\ Len(last.pre) = 8
    /\ Len(context) = 8
    /\ context # last.pre

(***************************************************************************)
(* curate_context with the delta-update curator.  last.out is the          *)
(* collection the curator returned, before the refinement check.           *)
(***************************************************************************)
IsCurate == last.op = "curate_context"

NumInsights == Len(last.arg.insights)

NumRecs == Len(last.arg.recommendations)

\* the score before the call of the item at position j of the curator's
\* result: 0.5 for an item the call appended
Prior(j) ==
    IF j <= Len(last.pre) THEN last.pre[j].effectiveness_score ELSE Dec(5, 10)

\* C8: with empty failures curate_context appends one item per insight
\* (category insight, priority 0.8, score 0.5), then one per recommendation
\* (category strategy, priority 0.7, score 0.5); a result of at most 20
\* items has length prior + |insights| + |recommendations|, and no
\* pre-existing item's score changes.
C8_DeltaAppend ==
    (IsCurate /\ last.arg.failures = <<>>) =>
        LET p == Len(last.pre)
        IN  /\ Len(last.out) = p + NumInsights + NumRecs
            /\ \A j \in 1..p :
                  /\ last.out[j].id = last.pre[j].id
                  /\ last.out[j].effectiveness_score = last.pre[j].effectiveness_score
            /\ \A j \in 1..NumInsights :
                  /\ last.out[p + j].content = last.arg.insights[j]
                  /\ last.out[p + j].category = "insight"
                  /\ last.out[p + j].priority = Dec(8, 10)
                  /\ last.out[p + j].effectiveness_score = Dec(5, 10)
            /\ \A j \in 1..NumRecs :
                  /\ last.out[p + NumInsights + j].content = last.arg.recommendations[j]
                  /\ last.out[p + NumInsights + j].category = "strategy"
                  /\ last.out[p + NumInsights + j].priority = Dec(7, 10)
                  /\ last.out[p + NumInsights + j].effectiveness_score = Dec(5, 10)
            /\ Len(last.out) <= 20 => context = last.out

\* the four baseline items, one insight, one recommendation, no failure:
\* six items
C8_Witness ==
    /\ IsCurate
    /\ last.arg.failures = <<>>
    /\ Len(last.pre) = 4
    /\ last.pre[1].id = <<"baseline", 1, 0>>
    /\ NumInsights = 1
    /\ NumRecs = 1
    /\ Len(context) = 6

\* the scenario of C9: four items, one insight, one recommendation and one
\* failure
FourSeedFailure ==
    /\ IsCurate
    /\ Len(last.pre) = 4
    /\ NumInsights = 1
    /\ NumRecs = 1
    /\ Len(last.arg.failures) = 1

\* C9 as stated: in that scenario each of the 6 resulting items has the
\* score max(0.0, priorScore - 0.05).
C9_PenaltyPoint05 ==
    FourSeedFailure =>
        /\ Len(context) = 6
        /\ \A j \in 1..Len(context) :
              context[j].effectiveness_score
                  = PyMax(Zero, FSub(Prior(j), Dec(5, 100)))

\* C9 (amended): in that scenario each of the 6 resulting items has the
\* score max(0.0, priorScore - 0.025).
C9_PenaltyPoint025 ==
    FourSeedFailure =>
        /\ Len(context) = 6
        /\ \A j \in 1..Len(context) :
              context[j].effectiveness_score
                  = PyMax(Zero, FSub(Prior(j), Dec(25, 1000)))

\* the scenario has happened on the four baseline items
C9_Witness ==
    /\ FourSeedFailure
    /\ last.pre[1].id = <<"baseline", 1, 0>>
    /\ Len(context) = 6

\* C10 as stated: curation changes scores iff failures is non-empty, and
\* then applies the failure update with impact 0.5 exactly once to every
\* item of the curator's result.
C10_ScoresChangeIffFailures ==
    IsCurate =>
        /\ (\E j \in 1..Len(last.out) :
               last.out[j].effectiveness_score # Prior(j))
             <=> last.arg.failures # <<>>
        /\ last.arg.failures # <<>> =>
              \A j \in 1..Len(last.out) :
                  last.out[j].effectiveness_score
                      = PyMax(Zero, FSub(Prior(j), Dec(25, 1000)))

\* C10 (amended): curation changes scores only if failures is non-empty;
\* it then applies the failure update with impact 0.5 exactly once to every
\* item of the curator's result, the appended ones included, whatever the
\* number of failures, which changes every score above 0.0 and leaves a
\* score of 0.0 as it is.
C10_PenaltyOnceOnFailures ==
    IsCurate =>
        /\ last.arg.failures = <<>> =>
              \A j \in 1..Len(last.out) :
                  last.out[j].effectiveness_score = Prior(j)
        /\ last.arg.failures # <<>> =>
              \A j \in 1..Len(last.out) :
                  /\ last.out[j].effectiveness_score
                        = PyMax(Zero, FSub(Prior(j), Dec(25, 1000)))
                  /\ FLt(Zero, Prior(j)) <=>
                        last.out[j].effectiveness_score # Prior(j)

\* a reflection with several failures has penalised an appended item once
\* and has left an item with score 0.0 as it was
C10_Witness ==
    /\ IsCurate
    /\ Len(last.arg.failures) > 1
    /\ NumInsights > 0
    /\ last.out[Len(last.pre) + 1].effectiveness_score = Dec(475, 1000)
    /\ \E j \in 1..Len(last.pre) :
          Prior(j) = Zero /\ last.out[j].effectiveness_score = Zero

(***************************************************************************)
(* Item ids.                                                               *)
(***************************************************************************)
\* C11: no two items of the knowledge collection have the same id, after
\* any sequence of curate_context calls on a collection seeded with
\* pairwise different ids.
C11_IdsUnique ==
    \A i, j \in 1..Len(context) : i # j => context[i].id # context[j].id

(***************************************************************************)
(* curate_context and refinement.                                          *)
(***************************************************************************)
\* the ids of the items of a collection
Ids(c) == {c[j].id : j \in 1..Len(c)}

\* C12: when the curated collection has at most 20 items, the knowledge
\* after curate_context contains every prior item and is at least as long
\* as before; an item leaves the knowledge collection only through
\* refine_context, called directly or by curate_context.
C12_CurateKeepsItems ==
    /\ (IsCurate /\ Len(last.out) <= 20) =>
          /\ Len(context) >= Len(last.pre)
          /\ \A j \in 1..Len(last.pre) : context[j].id = last.pre[j].id
    /\ ~(Ids(last.pre) \subseteq Ids(context)) => Refined

\* curate_context with failures has grown 18 items to exactly 20
C12_Witness ==
    /\ IsCurate
    /\ last.arg.failures # <<>>
    /\ Len(last.pre) = 18
    /\ Len(last.out) = 20
    /\ Len(context) = 20

C14_AugmentPenalizePrune ==
    IsCurate =>
        /\ last.arg.failures # <<>> =>
              \A j \in (Len(last.pre) + 1)..Len(last.out) :
                  last.out[j].effectiveness_score = FSub(Dec(5, 10), Dec(25, 1000))
        /\ Len(last.out) > 20 =>
              \A kept \in {Retained}, keys \in {[j \in 1..Len(last.out) |-> SortKey(last.out[j])]} :
                  /\ kept \subseteq {last.out[j] : j \in 1..Len(last.out)}
                  /\ Descending(context)
                  /\ \A i, j \in 1..Len(last.out) :
                        (last.out[i] \in kept /\ last.out[j] \notin kept) =>
                            FLe(keys[j], keys[i])

\* a call with failures has appended an item, penalised it and discarded
\* it, and has ranked two retained items the other way round than their
\* scores before the penalty would have
C14_Witness ==
    /\ IsCurate
    /\ last.arg.failures # <<>>
    /\ Len(last.out) > 20
    /\ \E j \in (Len(last.pre) + 1)..Len(last.out) :
          /\ last.out[j].effectiveness_score = Dec(475, 1000)
          /\ last.out[j] \notin Retained
    /\ \E i, j \in 1..Len(last.pre) :
          /\ i < j
          /\ last.out[i] \in Retained
          /\ last.out[j] \in Retained
          /\ FLe(SortKey(last.pre[j]), SortKey(last.pre[i]))
          /\ FLt(SortKey(last.out[i]), SortKey(last.out[j]))

(***************************************************************************)
(* reflect_on_execution, generate_strategies and get_context_state.        *)
(* record_outcome calls reflect_on_execution once.                         *)
(***************************************************************************)
IsReflect == last.op = "reflect_on_execution"

\* C15: reflect_on_execution appends the trace to the execution history on
\* every call, also when the reflector raises or degrades, and leaves the
\* knowledge collection as it was; no other step changes the history, so
\* the history is append-only and as long as the number of
\* reflect_on_execution calls made.
C15_HistoryAppendOnly ==
    [][/\ execution_history' =
             (IF last'.op \in {"reflect_on_execution", "record_outcome"}
              THEN Append(execution_history, last'.arg.execution_trace)
              ELSE execution_history)
       /\ last'.op = "reflect_on_execution" => context' = context]_vars

\* a second reflect_on_execution call, whose reflector raised, has recorded
\* its trace behind the first one
C15_Witness ==
    /\ IsReflect
    /\ last.out.raised
    /\ Len(execution_history) = 2
    /\ execution_history[2] = last.arg.execution_trace
    /\ context = last.pre

\* C16: generate_strategies leaves the knowledge collection and the
\* execution history as they were and returns what the generator returned.
C16_GenerateReadOnly ==
    [][last'.op = "generate_strategies" =>
          /\ context' = context
          /\ execution_history' = execution_history
          /\ last'.out = generate(last'.arg.task, context, last'.arg.response)]_vars

\* generate_strategies has returned two strategies on an engine that has
\* learned from one outcome
C16_Witness ==
    /\ last.op = "generate_strategies"
    /\ Len(last.out) = 2
    /\ Len(execution_history) = 1
    /\ Len(context) = 6
    /\ context = last.pre

\* the sum of the values of a function with a finite domain
RECURSIVE SumOver(_)
SumOver(f) ==
    IF DOMAIN f = {} THEN 0
    ELSE LET k == CHOOSE x \in DOMAIN f : TRUE
         IN  f[k] + SumOver([x \in DOMAIN f \ {k} |-> f[x]])

\* C17: get_context_state reports the number of items, for exactly the
\* categories present the number of items of each (which sum to the number
\* of items) and the length of the history, and changes neither an item
\* (its usage_count included), nor the order of the items, nor the history.
C17_StateSnapshot ==
    [][last'.op = "get_context_state" =>
          /\ context' = context
          /\ execution_history' = execution_history
          /\ last'.out.total_items = Len(context)
          /\ DOMAIN last'.out.by_category =
                {context[j].category : j \in 1..Len(context)}
          /\ \A cat \in DOMAIN last'.out.by_category :
                last'.out.by_category[cat] =
                    Cardinality({j \in 1..Len(context) : context[j].category = cat})
          /\ SumOver(last'.out.by_category) = Len(context)
          /\ last'.out.execution_history_count = Len(execution_history)
          /\ \A j \in 1..Len(context) :
                last'.out.items[j].usage_count = context[j].usage_count]_vars

\* get_context_state has reported six items of three categories and one
\* recorded trace
C17_Witness ==
    /\ last.op = "get_context_state"
    /\ last.out.total_items = 6
    /\ Cardinality(DOMAIN last.out.by_category) = 3
    /\ last.out.execution_history_count = 1
    /\ context = last.pre

(***************************************************************************)
(* Timestamps.  An operation that led to a state ran at time clock - 1.    *)
(* For every item the collection held before the operation, ItemAfter is   *)
(* the item after it (for curate_context in the curator's result, whose    *)
(* items refinement leaves as they are).                                   *)
(***************************************************************************)
ItemAfter(j) == IF IsCurate THEN last.out[j] ELSE context[j]

\* whether the operation has called update_effectiveness on the j-th item
Touched(j) ==
    \/ IsUpdate /\ last.arg.i = j
    \/ IsCurate /\ last.arg.failures # <<>>

HasItemsBefore == last.op \in {"update_effectiveness", "add_context_item", "curate_context"}

\* C18 as stated: over every operation an item's updated_at is different
\* afterwards iff its effectiveness_score is.
C18_StampIffScoreChanges ==
    HasItemsBefore =>
        \A j \in 1..Len(last.pre) :
            (ItemAfter(j).updated_at # last.pre[j].updated_at)
                <=> (ItemAfter(j).effectiveness_score # last.pre[j].effectiveness_score)

\* C18 (amended): every update_effectiveness call on an item sets its
\* updated_at to the current time, whether or not the score changes; an
\* operation that does not call it on an item leaves the item's updated_at
\* and effectiveness_score as they were, refine_context leaves every item
\* as it was.
C18_StampOnEveryUpdate ==
    /\ HasItemsBefore =>
          \A j \in 1..Len(last.pre) :
              IF Touched(j)
              THEN ItemAfter(j).updated_at = clock - 1
              ELSE /\ ItemAfter(j).updated_at = last.pre[j].updated_at
                   /\ ItemAfter(j).effectiveness_score = last.pre[j].effectiveness_score
    /\ Refined => Retained \subseteq {RefineInput[j] : j \in 1..Len(RefineInput)}

\* a failure update with impact 1.0 at the lower clamp has refreshed
\* updated_at and has left the score at 0.0
C18_Witness ==
    /\ IsUpdate
    /\ ~last.arg.success
    /\ last.arg.impact = One
    /\ OldScore = Zero
    /\ NewScore = Zero
    /\ context[last.arg.i].updated_at # last.pre[last.arg.i].updated_at

(***************************************************************************)
(* The learning cycle on the answers of the external capability.           *)
(***************************************************************************)
IsRecord == last.op = "record_outcome"

\* the reflector has been called on a trace it can summarise
ReflectorRan ==
    /\ IsReflect \/ IsRecord
    /\ Iterable(last.arg.execution_trace.features)

\* what the reflector returned
Reflected == IF IsReflect THEN last.out ELSE last.out.reflected

\* C19: for every response of the external capability (an error string,
\* text that is not JSON, a JSON object with expected fields missing, null
\* or of the wrong type) reflect_on_execution followed by curate_context
\* completes without raising, and leaves a knowledge collection with scores
\* in [0, 1] and a history grown by the trace.
C19_NoFatalError ==
    (IsRecord /\ Iterable(last.arg.execution_trace.features)) =>
        /\ ~last.out.raised
        /\ \A j \in 1..Len(context) : InUnit(context[j].effectiveness_score)
        /\ execution_history # <<>>
        /\ execution_history[Len(execution_history)] = last.arg.execution_trace

\* the response holds no JSON object that json.loads accepts
Unparsable(response) == response.kind # "object"

\* the response holds a JSON object of lists in which an expected field is
\* missing
Malformed(response) ==
    /\ response.kind = "object"
    /\ \A k \in ReflectionFields : response.data[k].t \in {"list", "missing"}
    /\ \E k \in ReflectionFields : response.data[k].t = "missing"

\* the failure penalty has not been applied: every item the collection held
\* is as it was
NoPenalty == \A j \in 1..Len(last.pre) : context[j] = last.pre[j]

\* C20 as stated: on malformed or unparsable output the reflector returns a
\* reflection with empty patterns, failures and context_gaps that carries
\* the recommendation 'Continue monitoring performance', so that the
\* curate_context that follows does not apply the failure penalty.
C20_MalformedDegrades ==
    (ReflectorRan /\ (Unparsable(last.arg.response) \/ Malformed(last.arg.response))) =>
        /\ ~Reflected.raised
        /\ Reflected.reflections.patterns = List(<<>>)
        /\ Reflected.reflections.failures = List(<<>>)
        /\ Reflected.reflections.context_gaps = List(<<>>)
        /\ Reflected.reflections.recommendations =
              List(<<"Continue monitoring performance">>)
        /\ IsRecord => NoPenalty

\* C20 (amended): on output that holds no parsable JSON object the
\* reflector returns the reflection with the insight 'Unable to parse
\* insights', empty patterns, failures and context_gaps and the
\* recommendation 'Continue monitoring performance', and the
\* curate_context that follows appends these two items and applies no
\* penalty; of a parsed JSON object it takes every field as it is, with the
\* empty list for a field that is missing.
C20_UnparsableDegrades ==
    ReflectorRan =>
        /\ ~Reflected.raised
        /\ Unparsable(last.arg.response) =>
              /\ Reflected.reflections.insights = List(<<"Unable to parse insights">>)
              /\ Reflected.reflections.patterns = List(<<>>)
              /\ Reflected.reflections.failures = List(<<>>)
              /\ Reflected.reflections.context_gaps = List(<<>>)
              /\ Reflected.reflections.recommendations =
                    List(<<"Continue monitoring performance">>)
              /\ IsRecord =>
                    /\ ~last.out.raised
                    /\ Len(context) = Len(last.pre) + 2
                    /\ NoPenalty
        /\ ~Unparsable(last.arg.response) =>
              \A k \in ReflectionFields :
                  Reflected.reflections[k] =
                      (IF last.arg.response.data[k] = Missing
                       THEN List(<<>>)
                       ELSE last.arg.response.data[k])

\* record_outcome on an error string of the capability has appended the
\* two items of the degraded reflection to the four baseline items and has
\* left these as they were
C20_Witness ==
    /\ IsRecord
    /\ last.arg.response.kind = "text"
    /\ ~last.out.raised
    /\ Len(last.pre) = 4
    /\ Len(context) = 6
    /\ context[5].content = "Unable to parse insights"
    /\ context[6].content = "Continue monitoring performance"
    /\ context[1].effectiveness_score = Dec(85, 100)

IsGenerate == last.op = "generate_strategies"

\* C21: whatever the capability answered (an error string, a text without
\* an array, brackets that are not JSON, a JSON array of any values), the
\* strategy producer returns a sequence of strings: one per item of a
\* parsed array, the raw response alone when the brackets do not parse,
\* nothing otherwise; the knowledge it was given is as it was.
C21_GenerateNeverFails ==
    IsGenerate =>
        /\ \A j \in 1..Len(last.out) : last.out[j].t = "str"
        /\ last.arg.response.kind = "array" =>
              Len(last.out) = Len(last.arg.response.items)
        /\ last.arg.response.kind = "bad_array" =>
              last.out = <<Str(last.arg.response.text)>>
        /\ last.arg.response.kind = "text" => last.out = <<>>
        /\ context = last.pre

\* the producer has answered from an array holding a string and an object
C21_Witness ==
    /\ IsGenerate
    /\ last.arg.response.kind = "array"
    /\ \E j \in 1..Len(last.arg.response.items) :
          last.arg.response.items[j].t = "dict"
    /\ last.out = <<Str("a"), Str("{'n': 1}")>>
    /\ Len(last.pre) > 4

IsAdd == last.op = "add_context_item"

\* C22: a newly constructed engine holds no item and no trace, and
\* add_context_item puts its item at the end of the collection, which
\* grows by exactly one with every earlier item where and as it was,
\* whether or not the collection already holds an item with that id or
\* content.
C22_AddAppends ==
    /\ last.op = "init" => context = <<>> /\ execution_history = <<>>
    /\ IsAdd =>
          /\ Len(context) = Len(last.pre) + 1
          /\ SubSeq(context, 1, Len(last.pre)) = last.pre
          /\ context[Len(context)] = last.arg

\* an item has been added to a collection that held its id and content
C22_Witness ==
    /\ IsAdd
    /\ \E j \in 1..Len(last.pre) :
          /\ last.pre[j].id = last.arg.id
          /\ last.pre[j].content = last.arg.content
    /\ Len(context) = Len(last.pre) + 1
    /\ context[Len(context)].id = last.arg.id

\* the positions of the items of the collection c that have the category
Matching(c, category) == {j \in 1..Len(c) : c[j].category = category}

\* C23: get_context_by_category returns the items of the asked category and
\* no other, each once and in the order they have in the collection, and
\* leaves the collection and the history as they were.
C23_ByCategoryFilters ==
    [][last'.op = "get_context_by_category" =>
          /\ context' = context
          /\ execution_history' = execution_history
          /\ \A idx \in {Matching(context, last'.arg)} :
                /\ Len(last'.out) = Cardinality(idx)
                /\ \A j \in idx :
                      last'.out[Cardinality({i \in idx : i <= j})] = context[j]]_vars

\* the three patterns of the agent's baseline have been returned, without
\* the strategy that stands between them
C23_Witness ==
    /\ last.op = "get_context_by_category"
    /\ last.arg = "pattern"
    /\ Len(context) = 4
    /\ last.out = <<context[1], context[2], context[4]>>
    /\ context[3].category = "strategy"

\* C24 as stated: after curate_context has returned, the collection holds
\* at most RefineAbove items, however many the reflection brought.
C24_AtMost20 == IsCurate => Len(context) <= RefineAbove

\* C24: after curate_context has returned, the collection holds at most
\* RefineAbove items or half of what the curator left, whichever is more:
\* at most RefineAbove whenever the curator left fewer than
\* 2 * RefineAbove + 2 items.
C24_AtMost20OrHalf ==
    IsCurate =>
        /\ Len(last.out) < 2 * RefineAbove + 2 => Len(context) <= RefineAbove
        /\ Len(context) <= RefineAbove \/ Len(context) <= Len(last.out) \div 2
        /\ last.ret = context

\* one insight has taken a collection of 21 items, left by a reflection of
\* 42 insights, to 22 items, of which the refinement has kept 11
C24_Witness ==
    /\ IsCurate
    /\ Len(last.pre) = RefineAbove + 1
    /\ Len(last.out) = RefineAbove + 2
    /\ Len(context) = 11

\* the collection an operation has made of the one it found, before any
\* pruning: the curator's result for curate_context, the collection as it
\* was for refine_context, the new collection otherwise
Grown(before, after, done) ==
    CASE done.op = "curate_context" -> done.out
      [] done.op = "refine_context" -> before
      [] OTHER -> after

\* every item of kept is an item of all, as often at most as it is there
SubBag(kept, all) ==
    \A p \in 1..Len(kept) :
        Cardinality({q \in 1..Len(kept) : kept[q] = kept[p]})
            <= Cardinality({q \in 1..Len(all) : all[q] = kept[p]})

\* C25: no operation of the engine (add_context_item, generate_strategies,
\* reflect_on_execution, curate_context, refine_context, get_context_state)
\* raises the effectiveness_score of an item or changes its usage_count:
\* each item the operation found is still the same item with a score not
\* above the one it had, and the items that stay in the collection are
\* kept as the operation left them.
C25_ScoresNeverIncrease ==
    [][\A grown \in {Grown(context, context', last')} :
          /\ Len(grown) >= Len(context)
          /\ \A j \in 1..Len(context) :
                /\ grown[j].id = context[j].id
                /\ FLe(grown[j].effectiveness_score, context[j].effectiveness_score)
                /\ grown[j].usage_count = context[j].usage_count
          /\ context' = grown \/ SubBag(context', grown)]_vars

\* a reflection with a failure and 42 insights has lowered the score of the
\* item the engine held, which the refinement has kept, unused as before,
\* among the 21 items it retained
C25_Witness ==
    /\ IsCurate
    /\ Len(last.pre) = 1
    /\ Len(context) = 21
    /\ context[1].id = last.pre[1].id
    /\ FLt(context[1].effectiveness_score, last.pre[1].effectiveness_score)
    /\ context[1].usage_count = 0

====
